---- MODULE Spec2Model ----
(***************************************************************************)
(* A model of the pseudocode complexity analyser: the cost algebra of      *)
(* Complexity (src/src/analyzer.py), the structural signature of           *)
(* KnowledgeBase (src/src/knowledge_base.py, src/src/models.py), the       *)
(* memoizing Analyzer.analyze (src/src/analyzer.py) and the Tokenizer and  *)
(* Parser front end (src/src/parser.py).                                   *)
(*                                                                         *)
(* Python strings are sequences of one-character strings, so that the      *)
(* substring tests, split() and int() of the code are computed, not        *)
(* assumed.                                                                *)
(***************************************************************************)
EXTENDS Integers, Sequences, FiniteSets, TLC

VARIABLES
    t1, t2, sum,            \* Complexity._add_term: the operands and the outcome
    nodeA, nodeB, sigs,     \* compute_signature: two nodes and their signatures
    kb, call, ncalls,       \* Analyzer: kb.data, the last analyze call, calls made
    code, tokens, parsed, pc, \* front end: source text, Tokenizer and Parser outcome
    files, filename, output \* main: the listing, the file the loop is at, the lines printed

vars ==
    <<t1, t2, sum, nodeA, nodeB, sigs, kb, call, ncalls, code, tokens, parsed, pc, files,
      filename, output>>

Idle == "idle"

----------------------------------------------------------------------------
(* Python str operations, on sequences of characters *)

Digits == <<"0", "1", "2", "3", "4", "5", "6", "7", "8", "9">>

IsDigit(c) == \E i \in 1..10 : Digits[i] = c

DigitVal(c) == (CHOOSE i \in 1..10 : Digits[i] = c) - 1

\* sub in s
Contains(s, sub) ==
    \E i \in 1..(Len(s) - Len(sub) + 1) : SubSeq(s, i, i + Len(sub) - 1) = sub

\* s.startswith(sub, i - 1), with i a 1-based position
StartsWithAt(s, sub, i) ==
    /\ i + Len(sub) - 1 <= Len(s)
    /\ SubSeq(s, i, i + Len(sub) - 1) = sub

\* s.split(c)[1]: the text between the first and the second c (or the end)
SplitSecond(s, c) ==
    LET first == CHOOSE i \in 1..Len(s) : s[i] = c /\ \A j \in 1..(i - 1) : s[j] # c
        rest  == SubSeq(s, first + 1, Len(s))
        stops == {i \in 1..Len(rest) : rest[i] = c}
        stop  == IF stops = {} THEN Len(rest) + 1
                 ELSE CHOOSE i \in stops : \A j \in stops : i <= j
    IN  SubSeq(rest, 1, stop - 1)

\* s.strip() for the only whitespace a term holds, the space
RECURSIVE Strip(_)
Strip(s) ==
    IF s = <<>> THEN s
    ELSE IF Head(s) = " " THEN Strip(Tail(s))
    ELSE IF s[Len(s)] = " " THEN Strip(SubSeq(s, 1, Len(s) - 1))
    ELSE s

RECURSIVE DigitsValue(_)
DigitsValue(s) ==
    IF s = <<>> THEN 0
    ELSE 10 * DigitsValue(SubSeq(s, 1, Len(s) - 1)) + DigitVal(s[Len(s)])

\* int(s): surrounding whitespace is dropped, then every character must be a
\* digit; anything else raises ValueError.  (Terms hold no sign or underscore.)
IntOk(s) == Strip(s) # <<>> /\ \A i \in 1..Len(Strip(s)) : IsDigit(Strip(s)[i])

IntVal(s) == DigitsValue(Strip(s))

\* str(k) for a natural k
RECURSIVE IntStr(_)
IntStr(k) == IF k < 10 THEN <<Digits[k + 1]>> ELSE IntStr(k \div 10) \o <<Digits[(k % 10) + 1]>>

Max(a, b) == IF a >= b THEN a ELSE b

----------------------------------------------------------------------------
(* Terms of the cost algebra *)

One == <<"1">>

N == <<"n">>

Pow(k) == <<"n", "^">> \o IntStr(k)

NLogN == <<"n", " ", "l", "o", "g", " ", "n">>

MaxOf(a, b) == <<"m", "a", "x", "(">> \o a \o <<",", " ">> \o b \o <<")">>

Prod(a, b) == a \o <<" ", "*", " ">> \o b

\* The outcome of an operation that may raise
Ok(v) == [exc |-> "none", val |-> v]

Raise(e) == [exc |-> e, val |-> <<>>]

\* "n^" in t1 and "n^" in t2: both exponents are read with int()
PowerBranch(a, b) ==
    LET s1 == SplitSecond(a, "^")
        s2 == SplitSecond(b, "^")
    IN  IF IntOk(s1) /\ IntOk(s2)
        THEN Ok(<<"n", "^">> \o IntStr(Max(IntVal(s1), IntVal(s2))))
        ELSE Raise("ValueError")

add_term(a, b) ==
    IF a = One THEN Ok(b)
    ELSE IF b = One THEN Ok(a)
    ELSE IF a = b THEN Ok(a)
    ELSE IF Contains(a, <<"n", "^">>) /\ Contains(b, <<"n", "^">>) THEN PowerBranch(a, b)
    ELSE IF Contains(a, N) /\ b = One THEN Ok(a)
    ELSE IF Contains(b, N) /\ a = One THEN Ok(b)
    ELSE Ok(MaxOf(a, b))

\* n^p * n and n * n^p: the exponent is read with int()
PowerSucc(t) ==
    LET s == SplitSecond(t, "^")
    IN  IF IntOk(s) THEN Ok(<<"n", "^">> \o IntStr(IntVal(s) + 1)) ELSE Raise("ValueError")

mul_term(a, b) ==
    IF a = One THEN Ok(b)
    ELSE IF b = One THEN Ok(a)
    ELSE IF a = N /\ b = N THEN Ok(Pow(2))
    ELSE IF Contains(a, <<"n", "^">>) /\ b = N THEN PowerSucc(a)
    ELSE IF a = N /\ Contains(b, <<"n", "^">>) THEN PowerSucc(b)
    ELSE Ok(Prod(a, b))

\* Complexity(o, omega, theta)
Complexity(o, omega, theta) == [o |-> o, omega |-> omega, theta |-> theta]

Identity == Complexity(One, One, One)

Linear == Complexity(N, N, N)

\* The three components are computed in order; the first raise propagates
Triple(ro, rom, rth) ==
    IF ro.exc # "none" THEN Raise(ro.exc)
    ELSE IF rom.exc # "none" THEN Raise(rom.exc)
    ELSE IF rth.exc # "none" THEN Raise(rth.exc)
    ELSE Ok(Complexity(ro.val, rom.val, rth.val))

Add(x, y) ==
    Triple(add_term(x.o, y.o), add_term(x.omega, y.omega), add_term(x.theta, y.theta))

Mul(x, y) ==
    Triple(mul_term(x.o, y.o), mul_term(x.omega, y.omega), mul_term(x.theta, y.theta))

----------------------------------------------------------------------------
(* The AST of models.py.  A node is a record; kind is the Python class. *)

NoneV == [kind |-> "None"]

Program(name, classes, procedures, main_block) ==
    [kind |-> "Program", name |-> name, classes |-> classes,
     procedures |-> procedures, main_block |-> main_block]

ClassDef(name, attributes) == [kind |-> "ClassDef", name |-> name, attributes |-> attributes]

ProcedureDef(name, params, body) ==
    [kind |-> "ProcedureDef", name |-> name, params |-> params, body |-> body]

Parameter(name, type_info) == [kind |-> "Parameter", name |-> name, type_info |-> type_info]

Block(statements) == [kind |-> "Block", statements |-> statements]

Assignment(target, value) == [kind |-> "Assignment", target |-> target, value |-> value]

IfStatement(condition, then_block, else_block) ==
    [kind |-> "IfStatement", condition |-> condition, then_block |-> then_block,
     else_block |-> else_block]

ForLoop(variable, start_value, end_value, body) ==
    [kind |-> "ForLoop", variable |-> variable, start_value |-> start_value,
     end_value |-> end_value, body |-> body]

WhileLoop(condition, body) == [kind |-> "WhileLoop", condition |-> condition, body |-> body]

RepeatLoop(condition, body) == [kind |-> "RepeatLoop", condition |-> condition, body |-> body]

Call(procedure_name, arguments) ==
    [kind |-> "Call", procedure_name |-> procedure_name, arguments |-> arguments]

BinaryOp(left, operator, right) ==
    [kind |-> "BinaryOp", left |-> left, operator |-> operator, right |-> right]

UnaryOp(operator, operand) == [kind |-> "UnaryOp", operator |-> operator, operand |-> operand]

\* Literal.value is typed Any: the str it holds is kept boxed, so that the
\* value fields of Literal and of Assignment stay apart
Str(s) == [str |-> s]

Literal(value, type_name) ==
    [kind |-> "Literal", value |-> Str(value), type_name |-> type_name]

Variable(name) == [kind |-> "Variable", name |-> name]

ArrayAccess(array_name, index) ==
    [kind |-> "ArrayAccess", array_name |-> array_name, index |-> index]

FieldAccess(object_name, field_name) ==
    [kind |-> "FieldAccess", object_name |-> object_name, field_name |-> field_name]

\* String constants of the code
StrInteger == <<"I", "n", "t", "e", "g", "e", "r">>

StrString == <<"S", "t", "r", "i", "n", "g">>

StrUnknown == <<"U", "n", "k", "n", "o", "w", "n">>

StrArray == <<"A", "r", "r", "a", "y">>

StrProgram == <<"P", "r", "o", "g", "r", "a", "m">>

StrLength == <<"l", "e", "n", "g", "t", "h">>

ExprKinds == {"BinaryOp", "UnaryOp", "Literal", "Variable", "ArrayAccess", "FieldAccess"}

----------------------------------------------------------------------------
(* ASTNode.to_dict and KnowledgeBase.compute_signature *)

RECURSIVE to_dict(_)
\* to_dict: one key per dataclass field whose value is not None, nodes and
\* lists of nodes converted in turn.  The class of the node is no field.
to_dict(node) ==
    LET List(v) == [i \in 1..Len(v) |-> to_dict(v[i])]
    IN  CASE node.kind = "Program" ->
                [name |-> node.name, classes |-> List(node.classes),
                 procedures |-> List(node.procedures),
                 main_block |-> to_dict(node.main_block)]
          [] node.kind = "ClassDef" -> [name |-> node.name, attributes |-> node.attributes]
          [] node.kind = "ProcedureDef" ->
                [name |-> node.name, params |-> List(node.params), body |-> to_dict(node.body)]
          [] node.kind = "Parameter" -> [name |-> node.name, type_info |-> node.type_info]
          [] node.kind = "Block" -> [statements |-> List(node.statements)]
          [] node.kind = "Assignment" ->
                [target |-> node.target, value |-> to_dict(node.value)]
          [] node.kind = "IfStatement" ->
                IF node.else_block = NoneV
                THEN [condition |-> to_dict(node.condition),
                      then_block |-> to_dict(node.then_block)]
                ELSE [condition |-> to_dict(node.condition),
                      then_block |-> to_dict(node.then_block),
                      else_block |-> to_dict(node.else_block)]
          [] node.kind = "ForLoop" ->
                [variable |-> node.variable, start_value |-> to_dict(node.start_value),
                 end_value |-> to_dict(node.end_value), body |-> to_dict(node.body)]
          [] node.kind \in {"WhileLoop", "RepeatLoop"} ->
                [condition |-> to_dict(node.condition), body |-> to_dict(node.body)]
          [] node.kind = "Call" ->
                [procedure_name |-> node.procedure_name, arguments |-> List(node.arguments)]
          [] node.kind = "BinaryOp" ->
                [left |-> to_dict(node.left), operator |-> node.operator,
                 right |-> to_dict(node.right)]
          [] node.kind = "UnaryOp" ->
                [operator |-> node.operator, operand |-> to_dict(node.operand)]
          [] node.kind = "Literal" -> [value |-> node.value, type_name |-> node.type_name]
          [] node.kind = "Variable" -> [name |-> node.name]
          [] node.kind = "ArrayAccess" ->
                [array_name |-> node.array_name, index |-> to_dict(node.index)]
          [] node.kind = "FieldAccess" ->
                [object_name |-> node.object_name, field_name |-> node.field_name]

\* sha256(json.dumps(node_dict, sort_keys=True)): with sorted keys the text is
\* one-to-one with the dict as a finite map, and the hash is taken to be
\* injective, so the signature is the dict itself
compute_signature(node_dict) == node_dict

----------------------------------------------------------------------------
(* KnowledgeBase: data maps a signature to the dict of a Complexity *)

\* Complexity.to_dict
ComplexityToDict(c) == [O |-> c.o, Omega |-> c.omega, Theta |-> c.theta]

\* Complexity.from_dict
from_dict(d) == Complexity(d.O, d.Omega, d.Theta)

\* A lookup that never finds the entry
get_complexity_miss(data, signature) == NoneV

\* self.data.get(signature)
get_complexity(data, signature) ==
    IF signature \in DOMAIN data THEN data[signature] ELSE NoneV

\* A store that starts the dict anew
add_complexity_anew(data, signature, complexity) == [s \in {signature} |-> complexity]

\* self.data[signature] = complexity
add_complexity(data, signature, complexity) ==
    [s \in DOMAIN data \cup {signature} |->
        IF s = signature THEN complexity ELSE data[s]]

----------------------------------------------------------------------------
(* AIEngine.analyze_complexity: the oracle answers with any dict of three  *)
(* strings; without an API key it answers with the error dict.             *)

MissingKey == [O |-> <<"E", "r", "r", "o", "r", ":", " ", "M", "i", "s", "s", "i", "n", "g", " ", "A", "P", "I", " ", "K", "e", "y">>, Omega |-> <<"E", "r", "r", "o", "r">>, Theta |-> <<"E", "r", "r", "o", "r">>]

Quadratic == [O |-> Pow(2), Omega |-> Pow(2), Theta |-> Pow(2)]

OracleAnswers == {MissingKey, Quadratic}

----------------------------------------------------------------------------
(* Analyzer *)

\* The key under which analyze stores the variable of the loop it enters
LoopVarKey == <<"l", "o", "o", "p", "_", "v", "a", "r">>

EmptyContext == [k \in {} |-> <<>>]

\* new_context = context.copy(); new_context['loop_var'] = node.variable
ExtendContext(context, variable) ==
    [k \in DOMAIN context \cup {LoopVarKey} |->
        IF k = LoopVarKey THEN variable ELSE context[k]]

RECURSIVE contains_var(_, _)
contains_var(expr, names) ==
    IF expr.kind = "Variable" THEN expr.name \in names
    ELSE IF expr.kind = "BinaryOp"
         THEN contains_var(expr.left, names) \/ contains_var(expr.right, names)
    ELSE FALSE

check_dependency(node, context) ==
    \/ contains_var(node.start_value, DOMAIN context)
    \/ contains_var(node.end_value, DOMAIN context)

estimate_iterations(start, end) ==
    IF end.kind = "Variable" /\ end.name = N THEN Linear ELSE Linear

\* The else branch left out of the sum
IfCostThenOnly(cond_cost, then_cost, else_cost) == Add(cond_cost, then_cost)

\* then_cost + else_cost, then cond_cost + max_branch
IfCost(cond_cost, then_cost, else_cost) ==
    LET max_branch == Add(then_cost, else_cost)
    IN  IF max_branch.exc # "none" THEN max_branch ELSE Add(cond_cost, max_branch.val)

\* The running record of one top-level analyze call: kb.data, the exception
\* raised if any, the value returned, and what the call did: the nodes
\* analyze was entered on and the context each entry received, the oracle
\* requests, the cache writes and the decision on each ForLoop.
StartEnv(data) ==
    [data |-> data, exc |-> "none", result |-> Identity, visits |-> 0, oracle |-> 0,
     writes |-> 0, decisions |-> {}, entries |-> {}]

Fail(env, e) == [env EXCEPT !.exc = e]

Return(env, c) == [env EXCEPT !.result = c]

\* The value of an arithmetic expression becomes the result, or its raise propagates
Arith(env, r) == IF r.exc # "none" THEN Fail(env, r.exc) ELSE Return(env, r.val)

RECURSIVE analyze(_, _, _, _), AnalyzeNode(_, _, _, _), AnalyzeStatements(_, _, _, _, _, _)

\* for stmt in node.statements: total = total + self.analyze(stmt, context)
AnalyzeStatements(stmts, i, total, context, env, answer) ==
    IF i > Len(stmts) THEN Return(env, total)
    ELSE LET r == analyze(stmts[i], context, env, answer)
         IN  IF r.exc # "none" THEN r
             ELSE LET s == Add(total, r.result)
                  IN  IF s.exc # "none" THEN Fail(r, s.exc)
                      ELSE AnalyzeStatements(stmts, i + 1, s.val, context, r, answer)

\* Step 2 of analyze: the cost by node type
AnalyzeNode(node, context, env, answer) ==
    CASE node.kind = "Program" -> analyze(node.main_block, context, env, answer)
      [] node.kind = "Block" ->
            AnalyzeStatements(node.statements, 1, Identity, context, env, answer)
      [] node.kind = "Assignment" ->
            LET v == analyze(node.value, context, env, answer)
            IN  IF v.exc # "none" THEN v ELSE Arith(v, Add(Identity, v.result))
      [] node.kind = "IfStatement" ->
            LET c == analyze(node.condition, context, env, answer)
                t == analyze(node.then_block, context, c, answer)
                e == IF node.else_block # NoneV
                     THEN analyze(node.else_block, context, t, answer)
                     ELSE Return(t, Identity)
            IN  IF c.exc # "none" THEN c
                ELSE IF t.exc # "none" THEN t
                ELSE IF e.exc # "none" THEN e
                ELSE Arith(e, IfCost(c.result, t.result, e.result))
      [] node.kind = "ForLoop" ->
            LET is_dependent == check_dependency(node, context)
                decided == [env EXCEPT !.decisions = @ \cup {<<node, is_dependent>>}]
            IN  IF is_dependent
                THEN [decided EXCEPT !.oracle = @ + 1,
                                     !.result = from_dict(answer)]
                ELSE LET new_context == ExtendContext(context, node.variable)
                         iterations == estimate_iterations(node.start_value, node.end_value)
                         b == analyze(node.body, new_context, decided, answer)
                     IN  IF b.exc # "none" THEN b ELSE Arith(b, Mul(iterations, b.result))
      [] node.kind \in {"WhileLoop", "RepeatLoop"} ->
            LET b == analyze(node.body, context, env, answer)
            IN  IF b.exc # "none" THEN b ELSE Arith(b, Mul(Linear, b.result))
      [] node.kind = "Call" -> Return(env, Identity)
      [] node.kind = "BinaryOp" ->
            LET l == analyze(node.left, context, env, answer)
                r == analyze(node.right, context, l, answer)
            IN  IF l.exc # "none" THEN l
                ELSE IF r.exc # "none" THEN r
                ELSE Arith(r, Add(l.result, r.result))
      [] node.kind = "UnaryOp" -> analyze(node.operand, context, env, answer)
      [] node.kind \in {"Literal", "Variable"} -> Return(env, Identity)
      [] node.kind = "ArrayAccess" -> analyze(node.index, context, env, answer)
      [] OTHER -> Return(env, Identity)

\* Analyzer.analyze: the cache is asked first; a computed result is stored
analyze(node, context, env, answer) ==
    LET signature == compute_signature(to_dict(node))
        cached == get_complexity(env.data, signature)
        entered == [env EXCEPT !.visits = @ + 1,
                               !.entries = @ \cup {<<node, context>>}]
    IN  IF cached # NoneV THEN Return(entered, from_dict(cached))
        ELSE LET r == AnalyzeNode(node, context, entered, answer)
             IN  IF r.exc # "none" THEN r
                 ELSE [r EXCEPT !.data = add_complexity(@, signature, ComplexityToDict(r.result)),
                                !.writes = @ + 1]

----------------------------------------------------------------------------
(* repr() of the expression dataclasses, which str(expr) returns *)

\* repr of a str: in double quotes if it holds a single quote and no double
\* quote, in single quotes with quote and backslash escaped otherwise
RECURSIVE ReprEscape(_, _)
ReprEscape(s, q) ==
    IF s = <<>> THEN <<>>
    ELSE (IF Head(s) \in {q, "\\"} THEN <<"\\", Head(s)>> ELSE <<Head(s)>>)
         \o ReprEscape(Tail(s), q)

ReprStr(s) ==
    IF (\E i \in 1..Len(s) : s[i] = "'") /\ ~(\E i \in 1..Len(s) : s[i] = "\"")
    THEN <<"\"">> \o ReprEscape(s, "\"") \o <<"\"">>
    ELSE <<"'">> \o ReprEscape(s, "'") \o <<"'">>

RECURSIVE Repr(_)
Repr(e) ==
    CASE e.kind = "Variable" -> <<"V", "a", "r", "i", "a", "b", "l", "e", "(", "n", "a", "m", "e", "=">> \o ReprStr(e.name) \o <<")">>
      [] e.kind = "Literal" ->
            <<"L", "i", "t", "e", "r", "a", "l", "(", "v", "a", "l", "u", "e", "=">> \o ReprStr(e.value.str) \o <<",", " ", "t", "y", "p", "e", "_", "n", "a", "m", "e", "=">>
            \o ReprStr(e.type_name) \o <<")">>
      [] e.kind = "BinaryOp" ->
            <<"B", "i", "n", "a", "r", "y", "O", "p", "(", "l", "e", "f", "t", "=">> \o Repr(e.left) \o <<",", " ", "o", "p", "e", "r", "a", "t", "o", "r", "=">> \o ReprStr(e.operator)
            \o <<",", " ", "r", "i", "g", "h", "t", "=">> \o Repr(e.right) \o <<")">>
      [] e.kind = "UnaryOp" ->
            <<"U", "n", "a", "r", "y", "O", "p", "(", "o", "p", "e", "r", "a", "t", "o", "r", "=">> \o ReprStr(e.operator) \o <<",", " ", "o", "p", "e", "r", "a", "n", "d", "=">>
            \o Repr(e.operand) \o <<")">>
      [] e.kind = "ArrayAccess" ->
            <<"A", "r", "r", "a", "y", "A", "c", "c", "e", "s", "s", "(", "a", "r", "r", "a", "y", "_", "n", "a", "m", "e", "=">> \o ReprStr(e.array_name) \o <<",", " ", "i", "n", "d", "e", "x", "=">>
            \o Repr(e.index) \o <<")">>
      [] e.kind = "FieldAccess" ->
            <<"F", "i", "e", "l", "d", "A", "c", "c", "e", "s", "s", "(", "o", "b", "j", "e", "c", "t", "_", "n", "a", "m", "e", "=">> \o ReprStr(e.object_name) \o <<",", " ", "f", "i", "e", "l", "d", "_", "n", "a", "m", "e", "=">>
            \o ReprStr(e.field_name) \o <<")">>

----------------------------------------------------------------------------
(* The programs analysed: statements as the Parser builds them *)

Var(c) == Variable(<<c>>)

Num(c) == Literal(<<c>>, StrInteger)

\* x <- 1
Stmt == Assignment(Repr(Var("x")), Num("1"))

\* x > 0
Cond == BinaryOp(Var("x"), <<">">>, Num("0"))

Body == Block(<<Stmt>>)

\* for j <- 1 to i do begin x <- 1 end
InnerDep == ForLoop(<<"j">>, Num("1"), Var("i"), Body)

\* for i <- 1 to n do begin for j <- 1 to i do begin x <- 1 end end
OuterDep == ForLoop(<<"i">>, Num("1"), Var("n"), Block(<<InnerDep>>))

\* for j <- 1 to m do begin x <- 1 end
InnerInd == ForLoop(<<"j">>, Num("1"), Var("m"), Body)

\* for i <- 1 to n do begin for j <- 1 to m do begin x <- 1 end end
Nest2 == ForLoop(<<"i">>, Num("1"), Var("n"), Block(<<InnerInd>>))

\* for k <- 1 to n do begin Nest2 end
Nest3 == ForLoop(<<"k">>, Num("1"), Var("n"), Block(<<Nest2>>))

\* for i <- 0 to n - 1 do begin for j <- x to 9 do begin x <- 1 end end
NestOther ==
    ForLoop(<<"i">>, Num("0"), BinaryOp(Var("n"), <<"-">>, Num("1")),
            Block(<<ForLoop(<<"j">>, Var("x"), Num("9"), Body)>>))

\* for j <- 1 to loop_var do begin x <- 1 end
InnerKey == ForLoop(<<"j">>, Num("1"), Variable(LoopVarKey), Body)

\* for i <- 1 to n do begin for j <- 1 to loop_var do begin x <- 1 end end
NestKey == ForLoop(<<"i">>, Num("1"), Var("n"), Block(<<InnerKey>>))

\* three statements of cost n, n^2 and n^3
Seq3 == Block(<<InnerInd, Nest2, Nest3>>)

\* if (x > 0) then begin <cost n> end else begin x <- 1 end
IfElse == IfStatement(Cond, Block(<<InnerInd>>), Body)

\* if (x > 0) then begin x <- 1 end
IfOnly == IfStatement(Cond, Body, NoneV)

\* if (x > 0) then begin <cost n> <cost n^2> end else begin <cost n^3> end
IfBig == IfStatement(Cond, Block(<<InnerInd, Nest2>>), Block(<<Nest3>>))

WhileOne == WhileLoop(Cond, Body)

RepeatOne == RepeatLoop(Cond, Body)

AnalysisNodes ==
    {InnerDep, OuterDep, InnerInd, Nest2, Nest3, NestOther, InnerKey, NestKey, Seq3,
     IfElse, IfOnly, IfBig, WhileOne, RepeatOne}

\* The contexts analyze is called with: none, the one analyze itself builds
\* inside a loop on i, and a dict keyed by the loop variable i
Contexts ==
    {EmptyContext, ExtendContext(EmptyContext, <<"i">>), [k \in {<<"i">>} |-> <<"i">>]}

MaxCalls == 2

NoCall == [node |-> NoneV]

----------------------------------------------------------------------------
(* The analyser: a session of analyze calls on one KnowledgeBase *)

InitAnalyzer ==
    /\ t1 = Idle /\ t2 = Idle /\ sum = Idle
    /\ nodeA = Idle /\ nodeB = Idle /\ sigs = Idle
    /\ code = Idle /\ tokens = Idle /\ parsed = Idle /\ pc = Idle
    /\ kb = [s \in {} |-> NoneV]
    /\ call = NoCall
    /\ ncalls = 0
    /\ files = Idle /\ filename = Idle /\ output = Idle

\* analyzer.analyze(node, context): kb.data keeps what was stored before a raise
AnalyzeCall(node, context, answer) ==
    /\ ncalls < MaxCalls
    /\ \E r \in {analyze(node, context, StartEnv(kb), answer)} :
           /\ kb' = r.data
           /\ call' = [node |-> node, context |-> context, exc |-> r.exc,
                       result |-> IF r.exc = "none" THEN r.result ELSE NoneV,
                       visits |-> r.visits, oracle |-> r.oracle, writes |-> r.writes,
                       decisions |-> r.decisions, entries |-> r.entries,
                       answer |-> answer,
                       answers |-> (IF call = NoCall THEN {} ELSE call.answers)
                                       \cup {answer}]
    /\ ncalls' = ncalls + 1
    /\ UNCHANGED <<t1, t2, sum, nodeA, nodeB, sigs, code, tokens, parsed, pc,
                 files, filename, output>>

NextAnalyzer ==
    \E node \in AnalysisNodes, context \in Contexts, answer \in OracleAnswers :
        AnalyzeCall(node, context, answer)

SpecAnalyzer == InitAnalyzer /\ [][NextAnalyzer]_vars

\* A call on the programs above asks the oracle at most once
OneRequest == call # NoCall => call.oracle <= 1

Returned(c) == c # NoCall /\ c.exc = "none"

Cubed == Complexity(Pow(3), Pow(3), Pow(3))

Squared == Complexity(Pow(2), Pow(2), Pow(2))

C2_AnalyzeTotal == call # NoCall => call.exc = "none"

\* The call being made finds its node in the cache
Hit == ncalls' = ncalls + 1 /\ compute_signature(to_dict(call'.node)) \in DOMAIN kb

\* The call being made is on the node whose analysis has just returned
Again == ncalls' = ncalls + 1 /\ Returned(call) /\ call'.node = call.node

\* C4: once analyze has returned a triple for a node, a later call on that
\* node, in any context, returns the same triple, analyses no child, asks no
\* oracle and writes nothing; so does every call whose node is in the cache.
C4_CacheHit ==
    [][/\ Again => Hit /\ call'.result = call.result
       /\ Hit => /\ call'.exc = "none"
                 /\ call'.result = from_dict(kb[compute_signature(to_dict(call'.node))])
                 /\ call'.visits = 1
                 /\ call'.oracle = 0
                 /\ call'.writes = 0
                 /\ kb' = kb]_vars

\* A loop nest analysed a second time, in another context
C4_Witness ==
    /\ ncalls = 2
    /\ Returned(call)
    /\ call.node = OuterDep
    /\ call.context # EmptyContext
    /\ call.visits = 1
    /\ call.writes = 0

\* C8: two nested ForLoops whose inner bounds name no enclosing loop variable,
\* around a body of cost (1,1,1), cost (n^2, n^2, n^2) and need no oracle,
\* whatever the bounds and whatever the cache holds.
C8_IndependentNestSquared ==
    (call # NoCall /\ call.node \in {Nest2, NestOther, NestKey}
                   /\ call.context = EmptyContext)
        => /\ call.exc = "none"
           /\ call.result = Squared
           /\ call.oracle = 0

\* The cost analyze returns for a node that has been analysed
Cost(node) ==
    IF node = NoneV THEN Identity
    ELSE from_dict(kb[compute_signature(to_dict(node))])

\* C10: for an IfStatement analyze returns
\* add(cost(condition), add(cost(then_block), cost(else_block))), a missing
\* else_block counting as (1,1,1); with costs 1, n and 1 that is n.
C10_IfSumsBranches ==
    (Returned(call) /\ call.node.kind = "IfStatement")
        => LET cond_cost == Cost(call.node.condition)
               then_cost == Cost(call.node.then_block)
               else_cost == Cost(call.node.else_block)
               branches  == Add(then_cost, else_cost)
           IN  /\ branches.exc = "none"
               /\ Add(cond_cost, branches.val).exc = "none"
               /\ Add(cond_cost, branches.val).val = call.result
               /\ (cond_cost = Identity /\ then_cost = Linear /\ else_cost = Identity)
                    => call.result = Linear

\* if (x > 0) then <cost n> else <cost 1> has been analysed and costs n
C10_Witness ==
    /\ Returned(call)
    /\ call.node = IfElse
    /\ Cost(IfElse.then_block) = Linear
    /\ Cost(IfElse.else_block) = Identity
    /\ call.result = Linear

\* C12: across the analyze calls of one process the cache only grows: no
\* signature is removed, a signature that maps to a triple maps to the same
\* triple ever after, and every write of a call goes to a signature that was
\* not there (so no write changes an entry).
C12_CacheAppendOnly ==
    [][ncalls' = ncalls + 1
        => /\ \A s \in DOMAIN kb : s \in DOMAIN kb' /\ kb'[s] = kb[s]
           /\ Cardinality(DOMAIN kb') = Cardinality(DOMAIN kb) + call'.writes]_vars

\* A second call has written to a cache that already held entries
C12_Witness ==
    /\ ncalls = 2
    /\ call.writes > 0
    /\ Cardinality(DOMAIN kb) > call.writes

RECURSIVE Nested(_, _)
\* The statements at and below a node, each with the variables of the
\* ForLoops around it
Nested(node, loop_vars) ==
    {<<node, loop_vars>>} \cup
    CASE node.kind = "Block" ->
            UNION {Nested(node.statements[k], loop_vars) : k \in 1..Len(node.statements)}
      [] node.kind = "ForLoop" -> Nested(node.body, loop_vars \cup {node.variable})
      [] node.kind \in {"WhileLoop", "RepeatLoop"} -> Nested(node.body, loop_vars)
      [] node.kind = "IfStatement" ->
            Nested(node.then_block, loop_vars) \cup
            (IF node.else_block = NoneV THEN {} ELSE Nested(node.else_block, loop_vars))
      [] OTHER -> {}

\* The entries of the call on statements (analyze is entered on expressions too)
StatementEntries ==
    {e \in call.entries :
        e[1].kind \in {"Block", "ForLoop", "WhileLoop", "RepeatLoop", "IfStatement",
                       "Assignment", "Call"}}

\* C13: when every ForLoop of a call was classified independent, each
\* statement analyze was entered on received a context whose keys include the
\* variables of all the ForLoops around it.
C13_ContextHoldsLoopVariables ==
    (call # NoCall /\ \A d \in call.decisions : ~d[2])
        => \A e \in StatementEntries :
              \E p \in Nested(call.node, {}) :
                  p[1] = e[1] /\ p[2] \subseteq DOMAIN e[2]

\* The same call against an empty cache, the oracle giving the same answer
Fresh == analyze(call.node, call.context, StartEnv([s \in {} |-> NoneV]), call.answer)

\* C14: a call of analyze against the cache the earlier calls left behind, the
\* oracle answering as it did in those calls, ends as the same call against
\* an empty cache does: the same triple (or the same raise) and the same
\* decision on each ForLoop it reaches.
C14_MemoizationTransparent ==
    (call # NoCall /\ call.answers = {call.answer})
        => /\ call.exc = Fresh.exc
           /\ call.exc = "none" => call.result = Fresh.result
           /\ call.decisions \subseteq Fresh.decisions

----------------------------------------------------------------------------
(* The cost algebra on its own: _add_term applied to two terms *)

MaxPower == 3

\* 1, n, n log n and the powers n^2 .. n^MaxPower
BaseTerms == {One, N, NLogN} \cup {Pow(k) : k \in 2..MaxPower}

\* The base terms, and the max(..) and products the algebra builds of two of
\* them: no operand is 1, and the operands of a max differ
Terms ==
    BaseTerms
        \cup {MaxOf(x[1], x[2]) :
                 x \in {y \in (BaseTerms \ {One}) \X (BaseTerms \ {One}) : y[1] # y[2]}}
        \cup {Prod(a, b) : a, b \in BaseTerms \ {One}}

\* No outcome yet
Pending == [exc |-> "pending", val |-> <<>>]

NoSignatures == <<>>

InitAlgebra ==
    /\ t1 \in Terms /\ t2 \in Terms /\ sum = Pending
    /\ nodeA = Idle /\ nodeB = Idle /\ sigs = Idle
    /\ kb = Idle /\ call = Idle /\ ncalls = 0
    /\ code = Idle /\ tokens = Idle /\ parsed = Idle /\ pc = Idle
    /\ files = Idle /\ filename = Idle /\ output = Idle

AddTerms ==
    /\ sum = Pending
    /\ sum' = add_term(t1, t2)
    /\ UNCHANGED <<t1, t2, nodeA, nodeB, sigs, kb, call, ncalls, code, tokens, parsed, pc,
                 files, filename, output>>

NextAlgebra == AddTerms

SpecAlgebra == InitAlgebra /\ [][NextAlgebra]_vars

\* t is exactly n^p for a number p
IsPower(t) ==
    /\ Len(t) >= 3
    /\ SubSeq(t, 1, 2) = <<"n", "^">>
    /\ \A i \in 3..Len(t) : IsDigit(t[i])

Exponent(t) == DigitsValue(SubSeq(t, 3, Len(t)))

\* The addition of the cost algebra as specified
SpecifiedSum(a, b) ==
    IF a = One THEN b
    ELSE IF b = One THEN a
    ELSE IF a = b THEN a
    ELSE IF IsPower(a) /\ IsPower(b) THEN Pow(Max(Exponent(a), Exponent(b)))
    ELSE MaxOf(a, b)

\* C9: _add_term(t1, t2) is t2 if t1 is 1, t1 if t2 is 1, t1 if t1 = t2,
\* n^max(p,q) for n^p and n^q, and the literal max(t1, t2) otherwise, also
\* when an operand is a composite term that holds a power.
C9_AddTermAsSpecified == sum # Pending => sum = Ok(SpecifiedSum(t1, t2))

----------------------------------------------------------------------------
(* The signature on its own: compute_signature(node.to_dict()) of two nodes *)

SignatureNodes ==
    AnalysisNodes \cup
    {Stmt, Cond, Body, Var("x"), Var("y"), Num("1"), Literal(<<"1">>, StrString),
     Assignment(Repr(Var("y")), Num("1")), IfStatement(Cond, Body, Body),
     Call(<<"p">>, <<Var("x")>>), Call(<<"p">>, <<>>), UnaryOp(StrLength, Var("x")),
     ArrayAccess(Repr(Var("x")), Num("1")), FieldAccess(Repr(Var("x")), <<"f">>),
     Program(StrProgram, <<>>, <<>>, Body),
     Program(StrProgram, <<ClassDef(<<"C">>, <<<<"a">>>>)>>,
             <<ProcedureDef(<<"p">>, <<Parameter(<<"a">>, StrUnknown)>>, Body)>>, Body)}

InitSignature ==
    /\ nodeA \in SignatureNodes /\ nodeB \in SignatureNodes /\ sigs = NoSignatures
    /\ t1 = Idle /\ t2 = Idle /\ sum = Idle
    /\ kb = Idle /\ call = Idle /\ ncalls = 0
    /\ code = Idle /\ tokens = Idle /\ parsed = Idle /\ pc = Idle
    /\ files = Idle /\ filename = Idle /\ output = Idle

ComputeSignatures ==
    /\ sigs = NoSignatures
    /\ sigs' = <<compute_signature(to_dict(nodeA)), compute_signature(to_dict(nodeB))>>
    /\ UNCHANGED <<t1, t2, sum, nodeA, nodeB, kb, call, ncalls, code, tokens, parsed, pc,
                 files, filename, output>>

NextSignature == ComputeSignatures

SpecSignature == InitSignature /\ [][NextSignature]_vars

\* C3: two nodes have the same signature if and only if they are the same
\* variant with equal fields; a WhileLoop and a RepeatLoop with the same
\* condition and body never share one.
C3_SignatureIsStructuralKey ==
    sigs # NoSignatures => ((sigs[1] = sigs[2]) <=> (nodeA = nodeB))

----------------------------------------------------------------------------
(* Tokenizer.  A character outside ASCII is one element named by its code   *)
(* point.                                                                  *)

LowerCase == <<"a", "b", "c", "d", "e", "f", "g", "h", "i", "j", "k", "l", "m", "n", "o", "p", "q", "r", "s", "t", "u", "v", "w", "x", "y", "z">>

UpperCase == <<"A", "B", "C", "D", "E", "F", "G", "H", "I", "J", "K", "L", "M", "N", "O", "P", "Q", "R", "S", "T", "U", "V", "W", "X", "Y", "Z">>

IsLetter(c) == \E i \in 1..26 : LowerCase[i] = c \/ UpperCase[i] = c

IsIdStart(c) == IsLetter(c) \/ c = "_"

IsIdChar(c) == IsLetter(c) \/ IsDigit(c) \/ c = "_"

\* str.lower()
ToLower(c) ==
    IF \E i \in 1..26 : UpperCase[i] = c
    THEN LowerCase[CHOOSE i \in 1..26 : UpperCase[i] = c]
    ELSE c

Lower(s) == [i \in 1..Len(s) |-> ToLower(s[i])]

CommentMark == "U+25BA"

ArrowGlyph == "U+1F868"

LeGlyph == "U+2264"

GeGlyph == "U+2265"

NeGlyph == "U+2260"

CeilGlyph == "U+250C"

FloorGlyph == "U+2514"

\* The character classes of the patterns: .  [^"]  \d  [a-zA-Z0-9_]  [ \t]
InClass(class, c) ==
    CASE class = "." -> c # "\n"
      [] class = "[^\"]" -> c # "\""
      [] class = "\\d" -> IsDigit(c)
      [] class = "[a-zA-Z0-9_]" -> IsIdChar(c)
      [] class = "[ \t]" -> c \in {" ", "\t"}

\* How many characters from position i on are in the class
Run(s, i, class) ==
    LET stop == CHOOSE j \in i..(Len(s) + 1) :
                    /\ j = Len(s) + 1 \/ ~InClass(class, s[j])
                    /\ \A k \in i..(j - 1) : InClass(class, s[k])
    IN  stop - i

\* The length matched at i by a pattern that is a list of alternative texts,
\* tried in order; 0 is no match
Alternatives(s, i, alts) ==
    LET hits == {k \in 1..Len(alts) : StartsWithAt(s, alts[k], i)}
    IN  IF hits = {} THEN 0
        ELSE Len(alts[CHOOSE k \in hits : \A m \in hits : k <= m])

\* A word matched without regard to case and not followed by an identifier
\* character: pattern + (?![a-zA-Z0-9_]) under re.IGNORECASE
WordOperator(s, i, word) ==
    IF /\ i + Len(word) - 1 <= Len(s)
       /\ Lower(SubSeq(s, i, i + Len(word) - 1)) = word
       /\ (i + Len(word) > Len(s) \/ ~IsIdChar(s[i + Len(word)]))
    THEN Len(word) ELSE 0

\* TOKEN_TYPES, in the order tried
TOKEN_TYPES ==
    <<"COMMENT", "STRING", "NUMBER", "ASSIGN", "LE", "GE", "NE", "EQ", "LT", "GT",
      "LPAREN", "RPAREN", "LBRACKET", "RBRACKET", "DOTDOT", "DOT", "COMMA", "PLUS",
      "MINUS", "MULTIPLY", "DIVIDE", "MOD", "DIV", "CEIL", "FLOOR", "ID", "NEWLINE",
      "SKIP", "MISMATCH">>

\* regex.match(self.code, self.pos): the length matched, 0 for no match
MatchLen(type, s, i) ==
    CASE type = "COMMENT" ->
            IF s[i] = CommentMark THEN 1 + Run(s, i + 1, ".") ELSE 0
      [] type = "STRING" ->
            LET inner == Run(s, i + 1, "[^\"]")
            IN  IF s[i] = "\"" /\ i + 1 + inner <= Len(s) THEN inner + 2 ELSE 0
      [] type = "NUMBER" ->
            LET whole == Run(s, i, "\\d")
                frac  == IF i + whole <= Len(s) /\ s[i + whole] = "."
                         THEN Run(s, i + whole + 1, "\\d") ELSE 0
            IN  IF whole = 0 THEN 0 ELSE IF frac = 0 THEN whole ELSE whole + 1 + frac
      [] type = "ASSIGN" -> Alternatives(s, i, <<<<ArrowGlyph>>, <<"<", "-">>>>)
      [] type = "LE" -> Alternatives(s, i, <<<<LeGlyph>>, <<"<", "=">>>>)
      [] type = "GE" -> Alternatives(s, i, <<<<GeGlyph>>, <<">", "=">>>>)
      [] type = "NE" -> Alternatives(s, i, <<<<NeGlyph>>, <<"<", ">">>>>)
      [] type = "EQ" -> Alternatives(s, i, <<<<"=">>>>)
      [] type = "LT" -> Alternatives(s, i, <<<<"<">>>>)
      [] type = "GT" -> Alternatives(s, i, <<<<">">>>>)
      [] type = "LPAREN" -> Alternatives(s, i, <<<<"(">>>>)
      [] type = "RPAREN" -> Alternatives(s, i, <<<<")">>>>)
      [] type = "LBRACKET" -> Alternatives(s, i, <<<<"[">>>>)
      [] type = "RBRACKET" -> Alternatives(s, i, <<<<"]">>>>)
      [] type = "DOTDOT" -> Alternatives(s, i, <<<<".", ".">>>>)
      [] type = "DOT" -> Alternatives(s, i, <<<<".">>>>)
      [] type = "COMMA" -> Alternatives(s, i, <<<<",">>>>)
      [] type = "PLUS" -> Alternatives(s, i, <<<<"+">>>>)
      [] type = "MINUS" -> Alternatives(s, i, <<<<"-">>>>)
      [] type = "MULTIPLY" -> Alternatives(s, i, <<<<"*">>>>)
      [] type = "DIVIDE" -> Alternatives(s, i, <<<<"/">>>>)
      [] type = "MOD" -> WordOperator(s, i, <<"m", "o", "d">>)
      [] type = "DIV" -> WordOperator(s, i, <<"d", "i", "v">>)
      [] type = "CEIL" -> Alternatives(s, i, <<<<CeilGlyph>>, <<"c", "e", "i", "l">>>>)
      [] type = "FLOOR" -> Alternatives(s, i, <<<<FloorGlyph>>, <<"f", "l", "o", "o", "r">>>>)
      [] type = "ID" -> IF IsIdStart(s[i]) THEN 1 + Run(s, i + 1, "[a-zA-Z0-9_]") ELSE 0
      [] type = "NEWLINE" -> Alternatives(s, i, <<<<"\n">>>>)
      [] type = "SKIP" -> Run(s, i, "[ \t]")
      [] type = "MISMATCH" -> IF s[i] # "\n" THEN 1 ELSE 0

Token(type, value, line, column) ==
    [type |-> type, value |-> value, line |-> line, column |-> column]

RECURSIVE tokenize(_, _, _, _, _)
\* Tokenizer.tokenize from self.pos on: the tokens, or the SyntaxError raised
tokenize(s, pos, line, column, toks) ==
    IF pos > Len(s) THEN Ok(toks)
    ELSE LET first == CHOOSE k \in 1..Len(TOKEN_TYPES) :
                          /\ MatchLen(TOKEN_TYPES[k], s, pos) > 0
                          /\ \A m \in 1..(k - 1) : MatchLen(TOKEN_TYPES[m], s, pos) = 0
             token_type == TOKEN_TYPES[first]
             n == MatchLen(token_type, s, pos)
             value == SubSeq(s, pos, pos + n - 1)
         IN  CASE token_type = "NEWLINE" -> tokenize(s, pos + n, line + 1, 1, toks)
               [] token_type = "SKIP" -> tokenize(s, pos + n, line, column + n, toks)
               [] token_type = "COMMENT" -> tokenize(s, pos + n, line, column, toks)
               [] token_type = "MISMATCH" -> Raise("SyntaxError")
               [] OTHER ->
                    tokenize(s, pos + n, line, column + n,
                             Append(toks, Token(token_type, value, line, column)))

\* Tokenizer(code).tokenize()
Tokenizer(s) == tokenize(s, 1, 1, 1, <<>>)

----------------------------------------------------------------------------
(* Parser.  self.pos counts from 0; a result is the exception raised, the   *)
(* position reached and the value returned.                                *)

\* What peek returns past the last token: None
NoToken == Token("None", <<>>, 0, 0)

PR(exc, pos, val) == [exc |-> exc, pos |-> pos, val |-> val]

peek(toks, pos, offset) ==
    IF pos + offset < Len(toks) THEN toks[pos + offset + 1] ELSE NoToken

\* type_ = "" stands for consume() without a type
consume(toks, pos, type_) ==
    LET token == peek(toks, pos, 0)
    IN  IF token = NoToken THEN PR("SyntaxError", pos, token)
        ELSE IF type_ # "" /\ token.type # type_ THEN PR("SyntaxError", pos, token)
        ELSE PR("none", pos + 1, token)

\* match: whether the token was taken, and the position after
match(toks, pos, type_) ==
    LET token == peek(toks, pos, 0)
    IN  IF token # NoToken /\ token.type = type_
        THEN [taken |-> TRUE, pos |-> pos + 1]
        ELSE [taken |-> FALSE, pos |-> pos]

consume_keyword(toks, pos, keyword) ==
    LET token == peek(toks, pos, 0)
    IN  IF token # NoToken /\ token.type = "ID" /\ Lower(token.value) = Lower(keyword)
        THEN consume(toks, pos, "")
        ELSE PR("SyntaxError", pos, token)

\* Reading an attribute of the None that peek returned
AttributeError(pos) == PR("AttributeError", pos, NoToken)

\* self.<name>() with the parser at pos
RECURSIVE Method(_, _, _)

RECURSIVE parse_block_body(_, _), BlockLoop(_, _, _), parse_statement(_, _),
          parse_assignment(_, _), parse_if(_, _), parse_for(_, _), parse_while(_, _),
          parse_repeat(_, _), parse_call(_, _), ArgLoop(_, _, _), parse_expression(_, _),
          parse_relational(_, _), RelationalLoop(_, _, _), parse_term(_, _),
          TermLoop(_, _, _), parse_factor(_, _), FactorLoop(_, _, _),
          parse_primary(_, _), SuffixLoop(_, _, _)

\* A block written begin ... end: the keyword, the body, the keyword
BeginEnd(toks, pos) ==
    LET b == consume_keyword(toks, pos, <<"b", "e", "g", "i", "n">>)
        body == Method("parse_block_body", toks, b.pos)
        e == consume_keyword(toks, body.pos, <<"e", "n", "d">>)
    IN  IF b.exc # "none" THEN b
        ELSE IF body.exc # "none" THEN body
        ELSE IF e.exc # "none" THEN e
        ELSE PR("none", e.pos, body.val)

\* ( expression )
Parenthesized(toks, pos) ==
    LET l == consume(toks, pos, "LPAREN")
        x == Method("parse_expression", toks, l.pos)
        r == consume(toks, x.pos, "RPAREN")
    IN  IF l.exc # "none" THEN l
        ELSE IF x.exc # "none" THEN x
        ELSE IF r.exc # "none" THEN r
        ELSE PR("none", r.pos, x.val)

parse_block_body(toks, pos) ==
    LET r == BlockLoop(toks, pos, <<>>)
    IN  IF r.exc # "none" THEN r ELSE PR("none", r.pos, Block(r.val))

\* while self.peek(): stop at end, until, else; otherwise a statement
BlockLoop(toks, pos, statements) ==
    LET token == peek(toks, pos, 0)
    IN  IF token = NoToken THEN PR("none", pos, statements)
        ELSE IF Lower(token.value) \in {<<"e", "n", "d">>, <<"u", "n", "t", "i", "l">>, <<"e", "l", "s", "e">>}
        THEN PR("none", pos, statements)
        ELSE LET st == Method("parse_statement", toks, pos)
             IN  IF st.exc # "none" THEN st
                 ELSE BlockLoop(toks, st.pos, Append(statements, st.val))

parse_statement(toks, pos) ==
    LET token == peek(toks, pos, 0)
        val == Lower(token.value)
    IN  IF val = <<"i", "f">> THEN Method("parse_if", toks, pos)
        ELSE IF val = <<"f", "o", "r">> THEN Method("parse_for", toks, pos)
        ELSE IF val = <<"w", "h", "i", "l", "e">> THEN Method("parse_while", toks, pos)
        ELSE IF val = <<"r", "e", "p", "e", "a", "t">> THEN Method("parse_repeat", toks, pos)
        ELSE IF val = <<"c", "a", "l", "l">> THEN Method("parse_call", toks, pos)
        ELSE IF token.type = "ID" THEN Method("parse_assignment", toks, pos)
        ELSE PR("SyntaxError", pos, token)

\* target <- value; the message of the SyntaxError reads self.peek().line
parse_assignment(toks, pos) ==
    LET target_expr == Method("parse_expression", toks, pos)
        m == match(toks, target_expr.pos, "ASSIGN")
        value == Method("parse_expression", toks, m.pos)
    IN  IF target_expr.exc # "none" THEN target_expr
        ELSE IF ~m.taken
        THEN (IF peek(toks, m.pos, 0) = NoToken THEN AttributeError(m.pos)
              ELSE PR("SyntaxError", m.pos, peek(toks, m.pos, 0)))
        ELSE IF value.exc # "none" THEN value
        ELSE PR("none", value.pos, Assignment(Repr(target_expr.val), value.val))

parse_if(toks, pos) ==
    LET k == consume_keyword(toks, pos, <<"i", "f">>)
        condition == Parenthesized(toks, k.pos)
        t == consume_keyword(toks, condition.pos, <<"t", "h", "e", "n">>)
        then_block == BeginEnd(toks, t.pos)
        has_else == LET token == peek(toks, then_block.pos, 0)
                    IN  token # NoToken /\ Lower(token.value) = <<"e", "l", "s", "e">>
        e == consume(toks, then_block.pos, "")
        else_block == BeginEnd(toks, e.pos)
    IN  IF k.exc # "none" THEN k
        ELSE IF condition.exc # "none" THEN condition
        ELSE IF t.exc # "none" THEN t
        ELSE IF then_block.exc # "none" THEN then_block
        ELSE IF ~has_else
        THEN PR("none", then_block.pos, IfStatement(condition.val, then_block.val, NoneV))
        ELSE IF else_block.exc # "none" THEN else_block
        ELSE PR("none", else_block.pos,
                IfStatement(condition.val, then_block.val, else_block.val))

parse_for(toks, pos) ==
    LET k == consume_keyword(toks, pos, <<"f", "o", "r">>)
        variable == consume(toks, k.pos, "ID")
        a == consume(toks, variable.pos, "ASSIGN")
        start_val == Method("parse_expression", toks, a.pos)
        t == consume_keyword(toks, start_val.pos, <<"t", "o">>)
        end_val == Method("parse_expression", toks, t.pos)
        d == consume_keyword(toks, end_val.pos, <<"d", "o">>)
        body == BeginEnd(toks, d.pos)
    IN  IF k.exc # "none" THEN k
        ELSE IF variable.exc # "none" THEN variable
        ELSE IF a.exc # "none" THEN a
        ELSE IF start_val.exc # "none" THEN start_val
        ELSE IF t.exc # "none" THEN t
        ELSE IF end_val.exc # "none" THEN end_val
        ELSE IF d.exc # "none" THEN d
        ELSE IF body.exc # "none" THEN body
        ELSE PR("none", body.pos,
                ForLoop(variable.val.value, start_val.val, end_val.val, body.val))

parse_while(toks, pos) ==
    LET k == consume_keyword(toks, pos, <<"w", "h", "i", "l", "e">>)
        condition == Parenthesized(toks, k.pos)
        d == consume_keyword(toks, condition.pos, <<"d", "o">>)
        body == BeginEnd(toks, d.pos)
    IN  IF k.exc # "none" THEN k
        ELSE IF condition.exc # "none" THEN condition
        ELSE IF d.exc # "none" THEN d
        ELSE IF body.exc # "none" THEN body
        ELSE PR("none", body.pos, WhileLoop(condition.val, body.val))

\* A repeat that reads its body as begin ... end
parse_repeat_begin_end(toks, pos) ==
    LET k == consume_keyword(toks, pos, <<"r", "e", "p", "e", "a", "t">>)
        body == BeginEnd(toks, k.pos)
        u == consume_keyword(toks, body.pos, <<"u", "n", "t", "i", "l">>)
        condition == Parenthesized(toks, u.pos)
    IN  IF k.exc # "none" THEN k
        ELSE IF body.exc # "none" THEN body
        ELSE IF u.exc # "none" THEN u
        ELSE IF condition.exc # "none" THEN condition
        ELSE PR("none", condition.pos, RepeatLoop(condition.val, body.val))

\* repeat, then the body up to until, then until ( condition )
parse_repeat(toks, pos) ==
    LET k == consume_keyword(toks, pos, <<"r", "e", "p", "e", "a", "t">>)
        body == Method("parse_block_body", toks, k.pos)
        u == consume_keyword(toks, body.pos, <<"u", "n", "t", "i", "l">>)
        condition == Parenthesized(toks, u.pos)
    IN  IF k.exc # "none" THEN k
        ELSE IF body.exc # "none" THEN body
        ELSE IF u.exc # "none" THEN u
        ELSE IF condition.exc # "none" THEN condition
        ELSE PR("none", condition.pos, RepeatLoop(condition.val, body.val))

parse_call(toks, pos) ==
    LET k == consume_keyword(toks, pos, <<"c", "a", "l", "l">>)
        proc_name == consume(toks, k.pos, "ID")
        l == consume(toks, proc_name.pos, "LPAREN")
        args == IF peek(toks, l.pos, 0).type # "RPAREN"
                THEN ArgLoop(toks, l.pos, <<>>) ELSE PR("none", l.pos, <<>>)
        r == consume(toks, args.pos, "RPAREN")
    IN  IF k.exc # "none" THEN k
        ELSE IF proc_name.exc # "none" THEN proc_name
        ELSE IF l.exc # "none" THEN l
        ELSE IF peek(toks, l.pos, 0) = NoToken THEN AttributeError(l.pos)
        ELSE IF args.exc # "none" THEN args
        ELSE IF r.exc # "none" THEN r
        ELSE PR("none", r.pos, Call(proc_name.val.value, args.val))

\* while True: an argument; stop unless a comma follows
ArgLoop(toks, pos, args) ==
    LET x == Method("parse_expression", toks, pos)
        m == match(toks, x.pos, "COMMA")
    IN  IF x.exc # "none" THEN x
        ELSE IF m.taken THEN ArgLoop(toks, m.pos, Append(args, x.val))
        ELSE PR("none", m.pos, Append(args, x.val))

parse_expression(toks, pos) == parse_relational(toks, pos)

parse_relational(toks, pos) ==
    LET left == Method("parse_term", toks, pos)
    IN  IF left.exc # "none" THEN left ELSE RelationalLoop(toks, left.pos, left.val)

RelationalLoop(toks, pos, left) ==
    IF peek(toks, pos, 0).type \in {"LT", "GT", "LE", "GE", "EQ", "NE"}
    THEN LET op == consume(toks, pos, "")
             right == Method("parse_term", toks, op.pos)
         IN  IF right.exc # "none" THEN right
             ELSE RelationalLoop(toks, right.pos, BinaryOp(left, op.val.value, right.val))
    ELSE PR("none", pos, left)

parse_term(toks, pos) ==
    LET left == Method("parse_factor", toks, pos)
    IN  IF left.exc # "none" THEN left ELSE TermLoop(toks, left.pos, left.val)

TermLoop(toks, pos, left) ==
    IF peek(toks, pos, 0).type \in {"PLUS", "MINUS"}
    THEN LET op == consume(toks, pos, "")
             right == Method("parse_factor", toks, op.pos)
         IN  IF right.exc # "none" THEN right
             ELSE TermLoop(toks, right.pos, BinaryOp(left, op.val.value, right.val))
    ELSE PR("none", pos, left)

parse_factor(toks, pos) ==
    LET left == Method("parse_primary", toks, pos)
    IN  IF left.exc # "none" THEN left ELSE FactorLoop(toks, left.pos, left.val)

FactorLoop(toks, pos, left) ==
    IF peek(toks, pos, 0).type \in {"MULTIPLY", "DIVIDE", "MOD", "DIV"}
    THEN LET op_token == consume(toks, pos, "")
             right == Method("parse_primary", toks, op_token.pos)
         IN  IF right.exc # "none" THEN right
             ELSE FactorLoop(toks, right.pos, BinaryOp(left, op_token.val.value, right.val))
    ELSE PR("none", pos, left)

parse_primary(toks, pos) ==
    LET token == peek(toks, pos, 0)
    IN  IF match(toks, pos, "LPAREN").taken THEN Parenthesized(toks, pos)
        ELSE IF token = NoToken THEN AttributeError(pos)
        ELSE IF token.type = "NUMBER" THEN PR("none", pos + 1, Literal(token.value, StrInteger))
        ELSE IF token.type = "STRING" THEN PR("none", pos + 1, Literal(token.value, StrString))
        ELSE IF token.type = "ID" THEN SuffixLoop(toks, pos + 1, Variable(token.value))
        ELSE IF Lower(token.value) = StrLength
        THEN LET arg == Parenthesized(toks, pos + 1)
             IN  IF arg.exc # "none" THEN arg
                 ELSE PR("none", arg.pos, UnaryOp(StrLength, arg.val))
        ELSE PR("SyntaxError", pos, token)

\* while True: .field or [index] after a name
SuffixLoop(toks, pos, expr) ==
    IF match(toks, pos, "DOT").taken
    THEN LET field == consume(toks, pos + 1, "ID")
         IN  IF field.exc # "none" THEN field
             ELSE SuffixLoop(toks, field.pos, FieldAccess(Repr(expr), field.val.value))
    ELSE IF match(toks, pos, "LBRACKET").taken
    THEN LET index == Method("parse_expression", toks, pos + 1)
             r == consume(toks, index.pos, "RBRACKET")
         IN  IF index.exc # "none" THEN index
             ELSE IF r.exc # "none" THEN r
             ELSE SuffixLoop(toks, r.pos, ArrayAccess(Repr(expr), index.val))
    ELSE PR("none", pos, expr)

RECURSIVE AttributeLoop(_, _, _), DimensionTokens(_, _), DimensionLoop(_, _),
          ParameterLoop(_, _, _), ClassLoop(_, _, _), ProcedureLoop(_, _, _)

\* while self.peek() and self.peek().type != 'RBRACE': an attribute name
AttributeLoop(toks, pos, attributes) ==
    LET token == peek(toks, pos, 0)
        a == consume(toks, pos, "ID")
    IN  IF token = NoToken \/ token.type = "RBRACE" THEN PR("none", pos, attributes)
        ELSE IF a.exc # "none" THEN a
        ELSE AttributeLoop(toks, a.pos, Append(attributes, a.val.value))

parse_class_def(toks, pos) ==
    LET k == consume(toks, pos, "ID")
        name == consume(toks, k.pos, "ID")
        l == consume(toks, name.pos, "LBRACE")
        attributes == AttributeLoop(toks, l.pos, <<>>)
        r == consume(toks, attributes.pos, "RBRACE")
    IN  IF k.exc # "none" THEN k
        ELSE IF name.exc # "none" THEN name
        ELSE IF l.exc # "none" THEN l
        ELSE IF attributes.exc # "none" THEN attributes
        ELSE IF r.exc # "none" THEN r
        ELSE PR("none", r.pos, ClassDef(name.val.value, attributes.val))

\* while self.peek().type != 'RBRACKET': self.consume()
DimensionTokens(toks, pos) ==
    LET token == peek(toks, pos, 0)
    IN  IF token = NoToken THEN AttributeError(pos)
        ELSE IF token.type # "RBRACKET" THEN DimensionTokens(toks, pos + 1)
        ELSE PR("none", pos, token)

\* while self.match('LBRACKET'): the dimension, ], and .. if it follows
DimensionLoop(toks, pos) ==
    LET m == match(toks, pos, "LBRACKET")
        d == DimensionTokens(toks, m.pos)
        r == consume(toks, d.pos, "RBRACKET")
    IN  IF ~m.taken THEN PR("none", pos, NoToken)
        ELSE IF d.exc # "none" THEN d
        ELSE IF r.exc # "none" THEN r
        ELSE DimensionLoop(toks, match(toks, r.pos, "DOTDOT").pos)

\* while True: one parameter; stop unless a comma follows
ParameterLoop(toks, pos, params) ==
    LET token == peek(toks, pos, 0)
        type_info == consume(toks, pos + 1, "ID")
        object_name == consume(toks, type_info.pos, "ID")
        param_name == consume(toks, pos, "ID")
        next == peek(toks, param_name.pos, 0)
        dims == DimensionLoop(toks, param_name.pos)
        one == IF Lower(token.value) = <<"c", "l", "a", "s", "e">>
               THEN (IF type_info.exc # "none" THEN type_info
                     ELSE IF object_name.exc # "none" THEN object_name
                     ELSE PR("none", object_name.pos,
                             Parameter(object_name.val.value, type_info.val.value)))
               ELSE IF param_name.exc # "none" THEN param_name
               ELSE IF next = NoToken THEN AttributeError(param_name.pos)
               ELSE IF next.type # "LBRACKET"
               THEN PR("none", param_name.pos, Parameter(param_name.val.value, StrUnknown))
               ELSE IF dims.exc # "none" THEN dims
               ELSE PR("none", dims.pos, Parameter(param_name.val.value, StrArray))
        m == match(toks, one.pos, "COMMA")
    IN  IF token = NoToken THEN AttributeError(pos)
        ELSE IF one.exc # "none" THEN one
        ELSE IF m.taken THEN ParameterLoop(toks, m.pos, Append(params, one.val))
        ELSE PR("none", m.pos, Append(params, one.val))

parse_procedure_def(toks, pos) ==
    LET name == consume(toks, pos, "ID")
        l == consume(toks, name.pos, "LPAREN")
        params == IF peek(toks, l.pos, 0).type # "RPAREN"
                  THEN ParameterLoop(toks, l.pos, <<>>) ELSE PR("none", l.pos, <<>>)
        r == consume(toks, params.pos, "RPAREN")
        body == BeginEnd(toks, r.pos)
    IN  IF name.exc # "none" THEN name
        ELSE IF l.exc # "none" THEN l
        ELSE IF peek(toks, l.pos, 0) = NoToken THEN AttributeError(l.pos)
        ELSE IF params.exc # "none" THEN params
        ELSE IF r.exc # "none" THEN r
        ELSE IF body.exc # "none" THEN body
        ELSE PR("none", body.pos, ProcedureDef(name.val.value, params.val, body.val))

\* while self.peek() and self.peek().value.lower() == 'clase'
ClassLoop(toks, pos, classes) ==
    LET token == peek(toks, pos, 0)
        c == Method("parse_class_def", toks, pos)
    IN  IF token = NoToken \/ Lower(token.value) # <<"c", "l", "a", "s", "e">> THEN PR("none", pos, classes)
        ELSE IF c.exc # "none" THEN c
        ELSE ClassLoop(toks, c.pos, Append(classes, c.val))

\* while the next two tokens are ID and LPAREN
ProcedureLoop(toks, pos, procedures) ==
    LET p == Method("parse_procedure_def", toks, pos)
    IN  IF peek(toks, pos, 0).type # "ID" \/ peek(toks, pos, 1).type # "LPAREN"
        THEN PR("none", pos, procedures)
        ELSE IF p.exc # "none" THEN p
        ELSE ProcedureLoop(toks, p.pos, Append(procedures, p.val))

\* Parser(tokens).parse_program(): the main block is read only when the next
\* token is begin, and its end is read as any ID
parse_program(toks) ==
    LET classes == ClassLoop(toks, 0, <<>>)
        procedures == ProcedureLoop(toks, classes.pos, <<>>)
        token == peek(toks, procedures.pos, 0)
        main_block == Method("parse_block_body", toks, procedures.pos + 1)
        e == consume(toks, main_block.pos, "ID")
    IN  IF classes.exc # "none" THEN classes
        ELSE IF procedures.exc # "none" THEN procedures
        ELSE IF token = NoToken \/ Lower(token.value) # <<"b", "e", "g", "i", "n">>
        THEN PR("none", procedures.pos,
                Program(StrProgram, classes.val, procedures.val, Block(<<>>)))
        ELSE IF main_block.exc # "none" THEN main_block
        ELSE IF e.exc # "none" THEN e
        ELSE PR("none", e.pos,
                Program(StrProgram, classes.val, procedures.val, main_block.val))

Method(name, toks, pos) ==
    CASE name = "parse_program" -> parse_program(toks)
      [] name = "parse_class_def" -> parse_class_def(toks, pos)
      [] name = "parse_procedure_def" -> parse_procedure_def(toks, pos)
      [] name = "parse_block_body" -> parse_block_body(toks, pos)
      [] name = "parse_statement" -> parse_statement(toks, pos)
      [] name = "parse_assignment" -> parse_assignment(toks, pos)
      [] name = "parse_if" -> parse_if(toks, pos)
      [] name = "parse_for" -> parse_for(toks, pos)
      [] name = "parse_while" -> parse_while(toks, pos)
      [] name = "parse_repeat" -> parse_repeat(toks, pos)
      [] name = "parse_call" -> parse_call(toks, pos)
      [] name = "parse_expression" -> parse_expression(toks, pos)
      [] name = "parse_relational" -> parse_relational(toks, pos)
      [] name = "parse_term" -> parse_term(toks, pos)
      [] name = "parse_factor" -> parse_factor(toks, pos)
      [] name = "parse_primary" -> parse_primary(toks, pos)

----------------------------------------------------------------------------
(* The front end of analyze_file: the text is tokenized, then parsed *)

\* p(a, A[1]..[n], Clase C o) begin call p(a, 1) end begin x <- length(A) * 2 end
ProcedureText ==
    <<"p", "(", "a", ",", " ", "A", "[", "1", "]", ".", ".", "[", "n", "]", ",", " ", "C", "l",
      "a", "s", "e", " ", "C", " ", "o", ")", " ", "b", "e", "g", "i", "n", " ", "c", "a", "l",
      "l", " ", "p", "(", "a", ",", " ", "1", ")", " ", "e", "n", "d", " ", "b", "e", "g", "i",
      "n", " ", "x", " ", "<", "-", " ", "l", "e", "n", "g", "t", "h", "(", "A", ")", " ", "*",
      " ", "2", " ", "e", "n", "d">>

\* begin if (x > 0) then begin x <- 1 end else begin y <- A[i].f end end
BranchText ==
    <<"b", "e", "g", "i", "n", " ", "i", "f", " ", "(", "x", " ", ">", " ", "0", ")", " ", "t",
      "h", "e", "n", " ", "b", "e", "g", "i", "n", " ", "x", " ", "<", "-", " ", "1", " ", "e",
      "n", "d", " ", "e", "l", "s", "e", " ", "b", "e", "g", "i", "n", " ", "y", " ", "<", "-",
      " ", "A", "[", "i", "]", ".", "f", " ", "e", "n", "d", " ", "e", "n", "d">>

\* begin for i <- 1 to n do begin while (i < n) do begin x <- 1 end end end
LoopText ==
    <<"b", "e", "g", "i", "n", " ", "f", "o", "r", " ", "i", " ", "<", "-", " ", "1", " ", "t",
      "o", " ", "n", " ", "d", "o", " ", "b", "e", "g", "i", "n", " ", "w", "h", "i", "l", "e",
      " ", "(", "i", " ", "<", " ", "n", ")", " ", "d", "o", " ", "b", "e", "g", "i", "n", " ",
      "x", " ", "<", "-", " ", "1", " ", "e", "n", "d", " ", "e", "n", "d", " ", "e", "n", "d">>

\* Clase C { a b }
ClassText ==
    <<"C", "l", "a", "s", "e", " ", "C", " ", "{", " ", "a", " ", "b", " ", "}">>

\* Clase C { a b } begin x <- 1 end
ClassBlockText ==
    <<"C", "l", "a", "s", "e", " ", "C", " ", "{", " ", "a", " ", "b", " ", "}", " ", "b", "e",
      "g", "i", "n", " ", "x", " ", "<", "-", " ", "1", " ", "e", "n", "d">>

\* begin ceiling <- floor_x mod model end
IdentifierText ==
    <<"b", "e", "g", "i", "n", " ", "c", "e", "i", "l", "i", "n", "g", " ", "<", "-", " ", "f",
      "l", "o", "o", "r", "_", "x", " ", "m", "o", "d", " ", "m", "o", "d", "e", "l", " ", "e",
      "n", "d">>

ProgramTexts ==
    {ProcedureText, BranchText, LoopText, ClassText, ClassBlockText, IdentifierText}

\* Every text cut short: the first k characters
Prefixes(text) == {SubSeq(text, 1, k) : k \in 0..Len(text)}

\* x <- 1
AssignText ==
    <<"x", " ", "<", "-", " ", "1">>

\* call f(x)
CallText ==
    <<"c", "a", "l", "l", " ", "f", "(", "x", ")">>

\* A[i] <- x + 1
StoreText ==
    <<"A", "[", "i", "]", " ", "<", "-", " ", "x", " ", "+", " ", "1">>

\* Statements, as written and as parsed
Statements ==
    {[text |-> AssignText, node |-> Assignment(Repr(Variable(<<"x">>)), Num("1"))],
     [text |-> CallText, node |-> Call(<<"f">>, <<Variable(<<"x">>)>>)],
     [text |-> StoreText,
      node |-> Assignment(Repr(ArrayAccess(Repr(Variable(<<"A">>)), Variable(<<"i">>))),
                          BinaryOp(Variable(<<"x">>), <<"+">>, Num("1")))]}

\* x > 0
PositiveText ==
    <<"x", " ", ">", " ", "0">>

\* x + 1 = n
EqualText ==
    <<"x", " ", "+", " ", "1", " ", "=", " ", "n">>

\* Conditions, as written and as parsed
Conditions ==
    {[text |-> PositiveText, node |-> BinaryOp(Variable(<<"x">>), <<">">>, Num("0"))],
     [text |-> EqualText,
      node |-> BinaryOp(BinaryOp(Variable(<<"x">>), <<"+">>, Num("1")), <<"=">>,
                        Variable(<<"n">>))]}

MaxStmts == 2

StatementLists == UNION {[1..k -> Statements] : k \in 0..MaxStmts}

RECURSIVE Join(_)
\* The texts of a list, each followed by a space
Join(texts) ==
    IF texts = <<>> THEN <<>> ELSE Head(texts) \o <<" ">> \o Join(Tail(texts))

TextsOf(list) == [k \in 1..Len(list) |-> list[k].text]

NodesOf(list) == [k \in 1..Len(list) |-> list[k].node]

\* begin repeat 
BeginRepeat ==
    <<"b", "e", "g", "i", "n", " ", "r", "e", "p", "e", "a", "t", " ">>

\* begin 
BeginWord ==
    <<"b", "e", "g", "i", "n", " ">>

\* end 
EndWord ==
    <<"e", "n", "d", " ">>

\* until (
UntilOpen ==
    <<"u", "n", "t", "i", "l", " ", "(">>

\* ) end
CloseEnd ==
    <<")", " ", "e", "n", "d">>

\* begin repeat <statements> until (<cond>) end
RepeatUntilText(list, cond) ==
    BeginRepeat \o Join(TextsOf(list)) \o UntilOpen \o cond.text \o CloseEnd

\* begin repeat begin <statements> end until (<cond>) end
RepeatBeginEndText(list, cond) ==
    BeginRepeat \o BeginWord \o Join(TextsOf(list)) \o EndWord \o UntilOpen
        \o cond.text \o CloseEnd

RepeatTexts ==
    {RepeatUntilText(list, cond) : list \in StatementLists, cond \in Conditions}
        \cup {RepeatBeginEndText(list, cond) : list \in StatementLists, cond \in Conditions}

Sources == (UNION {Prefixes(text) : text \in ProgramTexts}) \cup RepeatTexts

InitFrontEnd ==
    /\ code \in Sources
    /\ tokens = Idle /\ parsed = Idle /\ pc = "tokenize"
    /\ t1 = Idle /\ t2 = Idle /\ sum = Idle
    /\ nodeA = Idle /\ nodeB = Idle /\ sigs = Idle
    /\ kb = Idle /\ call = Idle /\ ncalls = 0
    /\ files = Idle /\ filename = Idle /\ output = Idle

\* tokens = tokenizer.tokenize(); a SyntaxError ends the file
TokenizeStep ==
    /\ pc = "tokenize"
    /\ tokens' = Tokenizer(code)
    /\ pc' = IF tokens'.exc = "none" THEN "parse" ELSE "error"
    /\ UNCHANGED <<t1, t2, sum, nodeA, nodeB, sigs, kb, call, ncalls, code, parsed,
                 files, filename, output>>

\* program = parser.parse_program()
ParseStep ==
    /\ pc = "parse"
    /\ parsed' = Method("parse_program", tokens.val, 0)
    /\ pc' = "done"
    /\ UNCHANGED <<t1, t2, sum, nodeA, nodeB, sigs, kb, call, ncalls, code, tokens,
                 files, filename, output>>

NextFrontEnd == TokenizeStep \/ ParseStep

SpecFrontEnd == InitFrontEnd /\ [][NextFrontEnd]_vars

Tokenized == pc \in {"parse", "done"}

\* C5: parse_program returns a Program or fails with a SyntaxError, also when
\* the tokens end in the middle of a parameter list, an argument list or an
\* expression.
C5_ParserFailsOnlyWithSyntaxError ==
    pc = "done" => parsed.exc \in {"none", "SyntaxError"}

\* The Program whose main block is one repeat statement
RepeatProgram(list, cond) ==
    Program(StrProgram, <<>>, <<>>, Block(<<RepeatLoop(cond.node, Block(NodesOf(list)))>>))

\* C6: repeat begin <statements> end until (<cond>) inside a block parses to a
\* RepeatLoop whose body holds exactly the statements in order and whose
\* condition is <cond>.
C6_RepeatBeginEnd ==
    \A list \in StatementLists, cond \in Conditions :
        code = RepeatBeginEndText(list, cond) =>
            /\ pc # "error"
            /\ pc = "done" => /\ parsed.exc = "none"
                              /\ parsed.val = RepeatProgram(list, cond)

\* C6 as amended: repeat <statements> until (<cond>) inside a block parses to a
\* RepeatLoop whose body holds exactly the statements in order and whose
\* condition is <cond>.
C6_RepeatUntil ==
    \A list \in StatementLists, cond \in Conditions :
        code = RepeatUntilText(list, cond) =>
            /\ pc # "error"
            /\ pc = "done" => /\ parsed.exc = "none"
                              /\ parsed.val = RepeatProgram(list, cond)

C6_Witness ==
    \E list \in StatementLists, cond \in Conditions :
        /\ Len(list) = 2 /\ list[1] # list[2]
        /\ code = RepeatUntilText(list, cond)
        /\ pc = "done" /\ parsed.exc = "none"

\* C7: a text beginning with Clase Name { a b } is tokenized with tokens for
\* the braces and parse_program returns a Program whose classes contain
\* ClassDef(Name, [a, b]).
C7_ClassDefinitionParses ==
    code \in {ClassText, ClassBlockText} =>
        /\ pc # "error"
        /\ Tokenized => \E k \in 1..Len(tokens.val) : tokens.val[k].value = <<"{">>
        /\ pc = "done" => /\ parsed.exc = "none"
                          /\ ClassDef(<<"C">>, <<<<"a">>, <<"b">>>>) = parsed.val.classes[1]

\* C15: when parse_program returns a Program, every token has been consumed:
\* the parser position is the number of tokens.
C15_AllTokensConsumed ==
    (pc = "done" /\ parsed.exc = "none") => parsed.pos = Len(tokens.val)

\* The identifier runs of a text: where a maximal run of [a-zA-Z0-9_] that
\* starts with a letter or underscore begins, and its length
IdentifierRuns(text) ==
    {<<i, 1 + Run(text, i + 1, "[a-zA-Z0-9_]")>> :
        i \in {j \in 1..Len(text) : /\ IsIdStart(text[j])
                                    /\ j = 1 \/ ~IsIdChar(text[j - 1])}}

\* The token types a run of identifier characters may come out as
WordTypes(word) ==
    {"ID"} \cup (IF Lower(word) = <<"m", "o", "d">> THEN {"MOD"} ELSE {})
           \cup (IF Lower(word) = <<"d", "i", "v">> THEN {"DIV"} ELSE {})
           \cup (IF word = <<"c", "e", "i", "l">> THEN {"CEIL"} ELSE {})
           \cup (IF word = <<"f", "l", "o", "o", "r">> THEN {"FLOOR"} ELSE {})

\* C16: the Tokenizer never splits an identifier: every maximal run of
\* identifier characters that starts with a letter or underscore is one token
\* covering the whole run (the texts are one line each, so a token's column
\* is its position in the text).
C16_IdentifiersWhole ==
    Tokenized =>
        \A run \in IdentifierRuns(code) :
            \E k \in 1..Len(tokens.val) :
                /\ tokens.val[k].column = run[1]
                /\ Len(tokens.val[k].value) = run[2]
                /\ tokens.val[k].type \in WordTypes(tokens.val[k].value)

----------------------------------------------------------------------------
(* main: every listed file goes through analyze_file on one Analyzer *)

\* begin x <- 1 end
AssignFileText == <<"b", "e", "g", "i", "n", " ">> \o AssignText \o <<" ", "e", "n", "d">>

\* begin: the tokens end inside the main block
OpenBlockText == <<"b", "e", "g", "i", "n">>

\* p(: the tokens end inside a parameter list
OpenParameterText == <<"p", "(">>

\* a loop around statements of cost n and n^2, whose product raises:
\* begin repeat repeat x<-1 until(a) repeat repeat x<-1 until(a) until(a) until(a) end
LoopOverSumText ==
    <<"b", "e", "g", "i", "n", " ", "r", "e", "p", "e", "a", "t", " ", "r", "e", "p", "e", "a",
      "t", " ", "x", "<", "-", "1", " ", "u", "n", "t", "i", "l", "(", "a", ")", " ", "r", "e",
      "p", "e", "a", "t", " ", "r", "e", "p", "e", "a", "t", " ", "x", "<", "-", "1", " ", "u",
      "n", "t", "i", "l", "(", "a", ")", " ", "u", "n", "t", "i", "l", "(", "a", ")", " ", "u",
      "n", "t", "i", "l", "(", "a", ")", " ", "e", "n", "d">>

\* a loop whose inner bound is the name loop_var, which goes to the oracle:
\* begin for i<-1 to n do begin for j<-1 to loop_var do begin x<-1 end end end
KeyText ==
    <<"b", "e", "g", "i", "n", " ", "f", "o", "r", " ", "i", "<", "-", "1", " ", "t", "o", " ",
      "n", " ", "d", "o", " ", "b", "e", "g", "i", "n", " ", "f", "o", "r", " ", "j", "<", "-",
      "1", " ", "t", "o", " ", "l", "o", "o", "p", "_", "v", "a", "r", " ", "d", "o", " ", "b",
      "e", "g", "i", "n", " ", "x", "<", "-", "1", " ", "e", "n", "d", " ", "e", "n", "d", " ",
      "e", "n", "d">>

\* The files of the algorithms directory: one that is analysed, one with a
\* lexical error, two with a syntax error, one whose analysis raises, and
\* one whose analysis asks the oracle
FileTexts ==
    {AssignFileText, ClassText, OpenBlockText, OpenParameterText, LoopOverSumText, KeyText}

MaxFiles == 2

Listings == UNION {[1..n -> FileTexts] : n \in 0..MaxFiles}

\* kb = KnowledgeBase(kb_path), analyzer = Analyzer(kb), files = [...]; no
\* text has been read, tokenized or parsed yet
InitBatch ==
    /\ files \in Listings
    /\ filename = 0 /\ output = <<>> /\ pc = "main"
    /\ kb = [s \in {} |-> NoneV]
    /\ code = <<>> /\ tokens = Ok(<<>>) /\ parsed = PR("none", 0, NoToken)
    /\ t1 = Idle /\ t2 = Idle /\ sum = Idle
    /\ nodeA = Idle /\ nodeB = Idle /\ sigs = Idle
    /\ call = Idle /\ ncalls = 0

\* if not files: print(...); return
NoFiles ==
    /\ pc = "main"
    /\ IF files = <<>>
       THEN /\ output' = Append(output, [file |-> 0, kind |-> "NoFiles"])
            /\ pc' = "returned"
       ELSE /\ output' = output
            /\ pc' = "for"
    /\ UNCHANGED <<t1, t2, sum, nodeA, nodeB, sigs, kb, call, ncalls, code, tokens, parsed,
                   files, filename>>

\* for filename in files: analyze_file(filepath, analyzer), up to code = f.read();
\* after the last file main returns
ForFilename ==
    /\ pc = "for"
    /\ IF filename < Len(files)
       THEN /\ filename' = filename + 1
            /\ output' = Append(output, [file |-> filename + 1, kind |-> "Analyzing"])
            /\ code' = files[filename + 1]
            /\ pc' = "tokenize"
       ELSE /\ pc' = "returned"
            /\ UNCHANGED <<filename, output, code>>
    /\ UNCHANGED <<t1, t2, sum, nodeA, nodeB, sigs, kb, call, ncalls, tokens, parsed, files>>

\* An except clause that lets everything but a SyntaxError through
ExceptSyntaxError(exc) == exc = "SyntaxError"

\* except Exception as e: the exceptions the clause catches
ExceptException(exc) == exc \in {"SyntaxError", "AttributeError", "ValueError"}

\* An exception raised inside the try of analyze_file: the handler prints it
\* and analyze_file returns; one the clause does not catch leaves main
Raised(exc) ==
    IF ExceptException(exc)
    THEN /\ output' = Append(output, [file |-> filename, kind |-> "Error", exc |-> exc])
         /\ pc' = "for"
    ELSE /\ output' = output
         /\ pc' = "crashed"

\* tokens = tokenizer.tokenize()
TokenizeFile ==
    /\ pc = "tokenize"
    /\ tokens' = Tokenizer(code)
    /\ IF tokens'.exc = "none" THEN output' = output /\ pc' = "parse"
       ELSE Raised(tokens'.exc)
    /\ UNCHANGED <<t1, t2, sum, nodeA, nodeB, sigs, kb, call, ncalls, code, parsed, files,
                   filename>>

\* program = parser.parse_program()
ParseFile ==
    /\ pc = "parse"
    /\ parsed' = Method("parse_program", tokens.val, 0)
    /\ IF parsed'.exc = "none" THEN output' = output /\ pc' = "analyze"
       ELSE Raised(parsed'.exc)
    /\ UNCHANGED <<t1, t2, sum, nodeA, nodeB, sigs, kb, call, ncalls, code, tokens, files,
                   filename>>

\* complexity = analyzer.analyze(program); print(complexity).  What analyze
\* stored before it raised stays in the cache.
AnalyzeFile(answer) ==
    /\ pc = "analyze"
    /\ \E r \in {analyze(parsed.val, EmptyContext, StartEnv(kb), answer)} :
           /\ kb' = r.data
           /\ IF r.exc = "none"
              THEN /\ output' = Append(output, [file |-> filename, kind |-> "Complexity",
                                                complexity |-> r.result])
                   /\ pc' = "for"
              ELSE Raised(r.exc)
    /\ UNCHANGED <<t1, t2, sum, nodeA, nodeB, sigs, call, ncalls, code, tokens, parsed, files,
                   filename>>

NextBatch ==
    \/ NoFiles
    \/ ForFilename
    \/ TokenizeFile
    \/ ParseFile
    \/ \E answer \in OracleAnswers : AnalyzeFile(answer)

\* Where main can be
Stages == {"main", "for", "tokenize", "parse", "analyze", "returned", "crashed"}

\* main goes on to another stage unless it has returned or an exception has
\* left it
Proceed == pc \notin {"returned", "crashed"} /\ pc' \in Stages

\* main is one sequential run that nothing suspends: until it ends it goes on
SpecBatch == InitBatch /\ [][NextBatch]_vars /\ WF_pc(Proceed)

\* The lines printed so far are those of the files from the first on, in
\* listing order: for each file its header, then its complexity or its error
InListingOrder ==
    \A j \in 1..Len(output) :
        /\ output[j].file = (j + 1) \div 2
        /\ output[j].file <= Len(files)
        /\ IF j % 2 = 1 THEN output[j].kind = "Analyzing"
           ELSE output[j].kind \in {"Complexity", "Error"}

\* C11: in a batch of files every file is eventually analysed and reported
\* exactly once, in listing order, whatever happened to the files before it:
\* a file's error is reported for that file and main goes on to the next.
C11_EveryFileReported ==
    /\ [](files # <<>> => InListingOrder)
    /\ <>[](files # <<>> => pc = "returned" /\ Len(output) = 2 * Len(files))

\* The analysis of the first file raised and was reported, and the second
\* file was analysed and its complexity printed
C11_Witness ==
    /\ pc = "returned" /\ Len(files) = 2 /\ Len(output) = 4
    /\ output[2].kind = "Error" /\ output[4].kind = "Complexity"
    /\ files[1] = LoopOverSumText

============================================================================
